---- MODULE Spec2Model ----
(***************************************************************************)
(* Model of phasorpy.components: two_fractions_from_phasor and             *)
(* fractions_from_phasor.                                                  *)
(*                                                                         *)
(* Numbers are exact rationals <<numerator, denominator>> in lowest terms  *)
(* with a positive denominator: the model follows the real-number          *)
(* semantics of the floating-point code (no rounding).  Coordinates are    *)
(* counted in grid units of 1e-6, so that the absolute tolerance 1e-6 of   *)
(* the degenerate-components test is AbsTolUnits = 1 unit.                 *)
(*                                                                         *)
(* An ndarray is a record [shape, data]: shape is the tuple of extents and *)
(* data maps every index tuple (1-based) to a value.                       *)
(***************************************************************************)
EXTENDS Integers, Sequences, FiniteSets, TLC

\* ------------------------------------------------------------- bounds
MaxDim == 3      \* largest extent of one sample-grid dimension
MaxCoord == 2    \* component coordinates are drawn from 0..MaxCoord
MaxAxis == 1     \* the axis argument is drawn from 0..MaxAxis
MaxSeed == 1     \* measured-data patterns are numbered 0..MaxSeed
FDen == 2        \* known fractions are multiples of 1/FDen

\* ---------------------------------------------------- program constants
AbsTolUnits == 1 \* abs_tol=1e-6 of math.isclose, in grid units of 1e-6

\* ------------------------------------------------------ exact arithmetic
Abs(n) == IF n < 0 THEN -n ELSE n

RECURSIVE GCD(_, _)
GCD(a, b) == IF b = 0 THEN a ELSE GCD(b, a % b)

Norm(n, d) ==
    LET g == GCD(Abs(n), Abs(d))
        s == IF d < 0 THEN -1 ELSE 1
    IN  <<(s * n) \div g, (s * d) \div g>>

R(n) == <<n, 1>>
RAdd(a, b) == Norm(a[1] * b[2] + b[1] * a[2], a[2] * b[2])
RSub(a, b) == Norm(a[1] * b[2] - b[1] * a[2], a[2] * b[2])
RMul(a, b) == Norm(a[1] * b[1], a[2] * b[2])
RDiv(a, b) == Norm(a[1] * b[2], a[2] * b[1])

ISqrt(n) == CHOOSE k \in 0..n : k * k = n
\* square root of a rational that is the square of a rational
RSqrt(a) == <<ISqrt(a[1]), ISqrt(a[2])>>

RECURSIVE RSum(_)
RSum(s) == IF s = <<>> THEN R(0) ELSE RAdd(Head(s), RSum(Tail(s)))

\* --------------------------------------------------------------- ndarray
RECURSIVE Idx(_)
Idx(shape) ==
    IF shape = <<>> THEN {<<>>}
    ELSE {<<h>> \o t : h \in 1..Head(shape), t \in Idx(Tail(shape))}

RECURSIVE Prod(_)
Prod(shape) == IF shape = <<>> THEN 1 ELSE Head(shape) * Prod(Tail(shape))

\* a function value with every entry computed (an ndarray holds its values)
Stored(f) == IF f = f THEN f ELSE f

Arr(shape, f(_)) ==
    [shape |-> shape, data |-> Stored([i \in Idx(shape) |-> f(i)])]

Ndim(a) == Len(a.shape)
Size(a) == Prod(a.shape)

Reverse(s) == [k \in 1..Len(s) |-> s[Len(s) + 1 - k]]
InsertAt(s, p, x) == SubSeq(s, 1, p - 1) \o <<x>> \o SubSeq(s, p, Len(s))
RemoveAt(s, p) == SubSeq(s, 1, p - 1) \o SubSeq(s, p + 1, Len(s))
ReplaceAt(s, p, x) == [k \in 1..Len(s) |-> IF k = p THEN x ELSE s[k]]

\* numpy.atleast_1d
AtLeast1d(a) ==
    IF a.shape = <<>> THEN Arr(<<1>>, LAMBDA i : a.data[<<>>]) ELSE a

\* numpy.expand_dims(a, axis) for 0 <= axis <= a.ndim
ExpandDims(a, axis) ==
    Arr(InsertAt(a.shape, axis + 1, 1), LAMBDA i : a.data[RemoveAt(i, axis + 1)])

\* numpy.ones(shape)
Ones(shape) == Arr(shape, LAMBDA i : R(1))

\* numpy.concatenate of arrays of one shape along axis, 0 <= axis < ndim
RECURSIVE ConcatData(_, _, _)
ConcatData(as, axis, i) ==
    LET n == Head(as).shape[axis + 1]
    IN  IF i[axis + 1] <= n THEN Head(as).data[i]
        ELSE ConcatData(Tail(as), axis, ReplaceAt(i, axis + 1, i[axis + 1] - n))

Concatenate(as, axis) ==
    LET sh == as[1].shape
    IN  Arr(ReplaceAt(sh, axis + 1, Len(as) * sh[axis + 1]),
            LAMBDA i : ConcatData(as, axis, i))

\* ndarray.T: all axes reversed
Transpose(a) == Arr(Reverse(a.shape), LAMBDA i : a.data[Reverse(i)])

\* a[..., None]
NewAxisLast(a) ==
    Arr(Append(a.shape, 1), LAMBDA i : a.data[SubSeq(i, 1, Len(i) - 1)])

\* numpy.tile(a, (reps,)) for a.ndim >= 1: repetition along the last axis
Tile(a, reps) ==
    LET n == Len(a.shape)
        last == a.shape[n]
    IN  Arr(ReplaceAt(a.shape, n, last * reps),
            LAMBDA i : a.data[ReplaceAt(i, n, ((i[n] - 1) % last) + 1)])

\* a[..., 0]
TakeFirstOfLast(a) ==
    Arr(SubSeq(a.shape, 1, Len(a.shape) - 1), LAMBDA i : a.data[Append(i, 1)])

\* tuple(a): the sub-arrays along the first axis
Unstack(a) ==
    [k \in 1..a.shape[1] |-> Arr(Tail(a.shape), LAMBDA i : a.data[<<k>> \o i])]

\* -------------------------------------------------------- linear algebra
\* A matrix is a 2-d ndarray; Minor removes row r and column c.
Minor(m, r, c) ==
    Arr(<<m.shape[1] - 1, m.shape[2] - 1>>,
        LAMBDA i : m.data[<<IF i[1] < r THEN i[1] ELSE i[1] + 1,
                            IF i[2] < c THEN i[2] ELSE i[2] + 1>>])

RECURSIVE Det(_)
Det(m) ==
    IF m.shape[1] = 0 THEN R(1)
    ELSE IF m.shape[1] = 1 THEN m.data[<<1, 1>>]
    ELSE RSum([c \in 1..m.shape[2] |->
                 RMul(IF c % 2 = 1 THEN m.data[<<1, c>>]
                      ELSE RSub(R(0), m.data[<<1, c>>]),
                      Det(Minor(m, 1, c)))])

\* cofactor of entry (r, c)
Cofactor(m, r, c) ==
    IF (r + c) % 2 = 0 THEN Det(Minor(m, r, c))
    ELSE RSub(R(0), Det(Minor(m, r, c)))

\* the inverse of a square matrix of determinant detA # 0: adj(a) / detA
Inverse(a, detA) ==
    Arr(a.shape, LAMBDA i : RDiv(Cofactor(a, i[2], i[1]), detA))

\* row c of inv times the vector b: entry c of the solution x of a x = b
SolveEntry(inv, b, c) ==
    RSum([r \in 1..inv.shape[2] |-> RMul(inv.data[<<c, r>>], b[r])])

\* numpy.linalg.solve(a, b) for a 2-d array a and b.ndim >= 2: b is a stack of
\* matrices (..., M, K); every column of every matrix is solved against a.
\* The last two axes of a must be square (LinAlgError), the rows of b must
\* match (ValueError of the gufunc), and a must not be singular (LinAlgError).
LinalgSolve(a, b) ==
    LET n == Len(b.shape)
        m == Len(a.shape)
    IN  IF a.shape[m - 1] # a.shape[m] THEN [err |-> "not_square", x |-> b]
        ELSE IF b.shape[n - 1] # a.shape[1] THEN [err |-> "core_dimension", x |-> b]
        ELSE LET detA == Det(a)
                 inv == Inverse(a, detA)
             IN  IF detA = R(0) THEN [err |-> "singular", x |-> b]
                 ELSE [err |-> "none",
                       x |-> Arr(b.shape, LAMBDA i :
                               SolveEntry(inv,
                                 [r \in 1..a.shape[1] |->
                                     b.data[ReplaceAt(i, n - 1, r)]],
                                 i[n - 1]))]

\* ------------------------------------------------ projection primitive
\* project_phasor_to_line of phasorpy._utils: orthogonal projection of the
\* point (x, y) onto the line through first and second, not clipped.
ProjectPoint(x, y, first, second) ==
    LET vx == RSub(second[1], first[1])
        vy == RSub(second[2], first[2])
        dot == RAdd(RMul(RSub(x, first[1]), vx), RMul(RSub(y, first[2]), vy))
        t == RDiv(dot, RAdd(RMul(vx, vx), RMul(vy, vy)))
    IN  <<RAdd(first[1], RMul(t, vx)), RAdd(first[2], RMul(t, vy))>>

project_phasor_to_line(real_, imag_, rc, ic) ==
    LET first == <<rc.data[<<1>>], ic.data[<<1>>]>>
        second == <<rc.data[<<2>>], ic.data[<<2>>]>>
    IN  <<Arr(real_.shape, LAMBDA i :
                ProjectPoint(real_.data[i], imag_.data[i], first, second)[1]),
          Arr(real_.shape, LAMBDA i :
                ProjectPoint(real_.data[i], imag_.data[i], first, second)[2])>>

\* ------------------------------------------- two_fractions_from_phasor
\* square of hypot(a, b)
HypotSq(a, b) == RAdd(RMul(a, a), RMul(b, b))

\* hypot(..) / hypot(..) from the squares: sqrt(p) / sqrt(q) = sqrt(p / q)
DivHypot(psq, qsq) == RSqrt(RDiv(psq, qsq))

\* a tolerance test that lets a distance of exactly 1e-6 pass
IsCloseToZeroStrict(dsq) == dsq[1] < AbsTolUnits * AbsTolUnits * dsq[2]

\* math.isclose(d, 0, abs_tol=1e-6) for d >= 0 given as its square:
\* d <= max(1e-9 * d, 1e-6), that is d <= 1e-6
IsCloseToZero(dsq) == dsq[1] <= AbsTolUnits * AbsTolUnits * dsq[2]

\* square of total_distance_between_components
TotalDistanceSq(rc, ic) ==
    HypotSq(RSub(rc.data[<<2>>], rc.data[<<1>>]),
            RSub(ic.data[<<2>>], ic.data[<<1>>]))

\* the validation of two_fractions_from_phasor: the error it raises, or "none"
TwoCheckError(rc, ic) ==
    IF rc.shape # <<2>> THEN "shape_mismatch"
    ELSE IF ic.shape # <<2>> THEN "shape_mismatch"
    ELSE IF IsCloseToZero(TotalDistanceSq(rc, ic)) THEN "degenerate"
    ELSE "none"

FractionOfSecond(real_, imag_, rc, ic) ==
    LET proj == project_phasor_to_line(real_, imag_, rc, ic)
        total == TotalDistanceSq(rc, ic)
    IN  Arr(real_.shape, LAMBDA i :
            DivHypot(HypotSq(RSub(proj[1].data[i], rc.data[<<1>>]),
                             RSub(proj[2].data[i], ic.data[<<1>>])),
                     total))

FractionOfFirst(second) ==
    Arr(second.shape, LAMBDA i : RSub(R(1), second.data[i]))

\* tuple(numpy.array([1 - fraction_of_second_component,
\*                    fraction_of_second_component]))
TwoFractions(real_, imag_, rc, ic) ==
    LET second == FractionOfSecond(real_, imag_, rc, ic)
        first == FractionOfFirst(second)
        stacked == Arr(<<2>> \o second.shape, LAMBDA i :
                       IF i[1] = 1 THEN first.data[Tail(i)]
                       ELSE second.data[Tail(i)])
    IN  Unstack(stacked)

\* ----------------------------------------------- fractions_from_phasor
\* a validation that compares the measured shapes only
ValidateErrorMeasuredOnly(kindM, kindC, real_, imag_, rc, ic) ==
    IF kindM # "ndarray" THEN "attribute_error"
    ELSE IF real_.shape # imag_.shape THEN "shape_mismatch"
    ELSE IF kindC # "ndarray" THEN "attribute_error"
    ELSE "none"

\* lines 180-185: the error raised by the validation, or "none".  kindM and
\* kindC are the Python types of the measured and of the component
\* arguments: an "ndarray" has a shape attribute, a "list" has none.
ValidateError(kindM, kindC, real_, imag_, rc, ic) ==
    IF kindM # "ndarray" THEN "attribute_error"
    ELSE IF real_.shape # imag_.shape THEN "shape_mismatch"
    ELSE IF kindC # "ndarray" THEN "attribute_error"
    ELSE IF rc.shape # ic.shape THEN "shape_mismatch"
    ELSE "none"

\* line 190
IsTwoComponents(rc) == Size(rc) = 2

\* lines 194-196
ExpandComponents(c, axis_) == IF Ndim(c) = 1 THEN ExpandDims(c, axis_) ELSE c

\* a square test that only sees matrices with too many rows
NotSquareWrong(cc) == cc.shape[1] > cc.shape[2]

\* line 200: the candidate coefficient matrix is not square
NotSquare(cc) == cc.shape[1] # cc.shape[2]

\* the tiling without the transposition of the measured side
TiledSideNoTranspose(ia, reps) == Tile(NewAxisLast(ia), reps)

\* lines 211-213: numpy.tile(independent_arrays.T[..., None], (reps,))
TiledSide(ia, reps) == Tile(NewAxisLast(Transpose(ia)), reps)

\* lines 194-213: the coefficient matrix and the tiled measured side, or the
\* AxisError of expand_dims / concatenate
Assemble(real_, imag_, rc0, ic0, axis_) ==
    LET bad == [err |-> "axis_error", cc |-> rc0, ia |-> real_, ones |-> FALSE]
    IN
    IF Ndim(rc0) = 1 /\ axis_ > 1 THEN bad
    ELSE
    LET rc == ExpandComponents(rc0, axis_)
        ic == ExpandComponents(ic0, axis_)
    IN
    IF axis_ >= Ndim(rc) THEN bad
    ELSE
    LET cand == Concatenate(<<rc, ic>>, axis_)
    IN
    IF NotSquare(cand)
    THEN IF axis_ > Ndim(real_) THEN bad
         ELSE LET re == ExpandDims(real_, axis_)
                  im == ExpandDims(imag_, axis_)
                  cc == Concatenate(<<rc, ic, Ones(rc.shape)>>, axis_)
                  ia == Concatenate(<<re, im, Ones(re.shape)>>, axis_)
              IN  [err |-> "none", cc |-> cc,
                   ia |-> TiledSide(ia, cc.shape[axis_ + 1]),
                   ones |-> TRUE]
    ELSE IF axis_ >= Ndim(real_) THEN bad
         ELSE LET ia == Concatenate(<<real_, imag_>>, axis_)
              IN  [err |-> "none", cc |-> cand,
                   ia |-> TiledSide(ia, cand.shape[axis_ + 1]),
                   ones |-> FALSE]

\* the tuple without the transposition: the samples, not the components,
\* come first
FractionsTupleNoTranspose(fractions) == Unstack(TakeFirstOfLast(fractions))

\* line 215: tuple(fractions[(..., 0)].T)
FractionsTuple(fractions) == Unstack(Transpose(TakeFirstOfLast(fractions)))

\* lines 214-215
SolveFractions(cc, ia) ==
    LET sol == LinalgSolve(cc, ia)
    IN  IF sol.err # "none" THEN [err |-> sol.err, result |-> <<>>]
        ELSE [err |-> "none", result |-> FractionsTuple(sol.x)]

\* the whole of two_fractions_from_phasor
two_fractions_from_phasor(real_, imag_, rc, ic) ==
    IF TwoCheckError(rc, ic) # "none"
    THEN [err |-> TwoCheckError(rc, ic), result |-> <<>>]
    ELSE [err |-> "none", result |-> TwoFractions(real_, imag_, rc, ic)]

\* the whole of fractions_from_phasor
fractions_from_phasor(kindM, kindC, real0, imag0, rc0, ic0, axis_) ==
    IF ValidateError(kindM, kindC, real0, imag0, rc0, ic0) # "none"
    THEN [err |-> ValidateError(kindM, kindC, real0, imag0, rc0, ic0),
          result |-> <<>>]
    ELSE
    LET re == AtLeast1d(real0)
        im == AtLeast1d(imag0)
        rc == AtLeast1d(rc0)
        ic == AtLeast1d(ic0)
    IN  IF IsTwoComponents(rc) THEN two_fractions_from_phasor(re, im, rc, ic)
        ELSE LET asm == Assemble(re, im, rc, ic, axis_)
             IN  IF asm.err # "none" THEN [err |-> asm.err, result |-> <<>>]
                 ELSE SolveFractions(asm.cc, asm.ia)

\* ------------------------------------------------------------- inputs
\* row-major position of index i in an array of the given shape, from 0
RECURSIVE Lin(_, _)
Lin(i, shape) ==
    IF i = <<>> THEN 0
    ELSE (Head(i) - 1) * Prod(Tail(shape)) + Lin(Tail(i), Tail(shape))

\* the known fraction vector of sample number l under data pattern seed, in
\* units of 1/FDen: K integers from -1..FDen+1 (the last one wider) summing
\* to FDen, so that fractions below 0 and above 1 occur
FracAt(K, l, seed) ==
    LET head == [k \in 1..(K - 1) |-> ((k * l + seed + k) % (FDen + 3)) - 1]
        RECURSIVE Sum(_)
        Sum(q) == IF q = <<>> THEN 0 ELSE Head(q) + Sum(Tail(q))
    IN  Append(head, FDen - Sum(head))

\* the exact mixture sum_k f[k] * c[k] / FDen, moved by off grid units
Mixture(c, f, off) ==
    LET RECURSIVE Dot(_)
        Dot(k) == IF k = 0 THEN 0 ELSE f[k] * c[k] + Dot(k - 1)
    IN  Norm(Dot(Len(c)) + off * FDen, FDen)

\* sample-grid shapes S: scalar, rank 1, rank 2, and rank 3 with extents <= 2
GridShapes ==
    {<<>>} \cup {<<n>> : n \in 1..MaxDim}
           \cup {<<a, b>> : a \in 2..MaxDim, b \in 2..MaxDim}
           \cup {<<2, 2, 2>>}

\* component coordinates c[h][k] of component k at harmonic h, as pairs
\* <<real, imag>>
ComponentSets(K, H) ==
    IF K = 2 THEN
        {<<<< <<x1, x2>> >>, << <<1, y2>> >>>> :
            x1 \in 0..1, x2 \in 0..MaxCoord, y2 \in 0..MaxCoord}
    ELSE IF K = 3 THEN
        {<<<< <<1, 0, x3>> >>, << <<0, 2, y3>> >>>> :
            x3 \in 0..MaxCoord, y3 \in 0..MaxCoord}
    ELSE IF H = 1 THEN
        {<<<< <<1, 0, 3, x4>> >>, << <<0, 2, 1, 1>> >>>> : x4 \in 0..1}
    ELSE
        {<<<< <<2, 1, 0, a>>, <<1, 2, 1, b>> >>,
           << <<1, 0, 2, 0>>, <<1, 1, 0, c>> >>>> :
            a \in 0..1, b \in 0..1, c \in 0..1}

\* the component array handed to the call: shape (K,) for one harmonic, with
\* the harmonics along axis lay for two; var = 1 appends an axis of extent 1
ComponentArray(c, K, H, lay, var) ==
    LET base == IF H = 1 THEN Arr(<<K>>, LAMBDA i : R(c[1][i[1]]))
                ELSE IF lay = 0 THEN Arr(<<H, K>>, LAMBDA i : R(c[i[1]][i[2]]))
                ELSE Arr(<<K, H>>, LAMBDA i : R(c[i[2]][i[1]]))
    IN  IF var = 0 THEN base ELSE NewAxisLast(base)

\* the measured array: at every sample the mixture of the components with
\* the known fractions of that sample, the harmonics along axis lay (along
\* the only axis when the grid is a scalar); var = 1 appends an axis of
\* extent 1, var = 2 makes the first extent one larger
MeasuredArray(c, K, H, lay, grid, seed, off, var) ==
    LET val(h, s) == Mixture(c[h], FracAt(K, Lin(s, grid), seed), off)
        pos == IF lay <= Len(grid) THEN lay + 1 ELSE Len(grid) + 1
        base == IF H = 1 THEN Arr(grid, LAMBDA i : val(1, i))
                ELSE Arr(InsertAt(grid, pos, H),
                         LAMBDA i : val(i[pos], RemoveAt(i, pos)))
    IN  IF var = 0 THEN base
        ELSE IF var = 1 THEN NewAxisLast(base)
        ELSE IF base.shape = <<>> THEN Arr(<<2>>, LAMBDA i : R(0))
        ELSE Arr(ReplaceAt(base.shape, 1, base.shape[1] + 1), LAMBDA i : R(0))

\* <<ivar, rvar, cvar, kindM, kindC>>: the shape variants of imag, of
\* real_components and of imag_components, and the Python types of the
\* measured and of the component arguments
Variants ==
    {<<0, 0, 0, "ndarray", "ndarray">>,   \* matching arrays
     <<1, 0, 0, "ndarray", "ndarray">>,   \* imag has a trailing unit axis
     <<2, 0, 0, "ndarray", "ndarray">>,   \* imag is longer than real
     <<0, 0, 1, "ndarray", "ndarray">>,   \* imag_components (K, 1)
     <<0, 1, 0, "ndarray", "ndarray">>,   \* real_components (K, 1)
     <<0, 1, 1, "ndarray", "ndarray">>,   \* both components (K, 1)
     <<1, 0, 1, "ndarray", "ndarray">>,   \* both pairs mismatched
     <<0, 0, 0, "list", "ndarray">>,
     <<0, 0, 0, "ndarray", "list">>,
     <<0, 0, 0, "list", "list">>}

PlainVariant == <<0, 0, 0, "ndarray", "ndarray">>

\* ---------------------------------------------------------------- state
VARIABLES
    pc,                      \* position of the running call
    call,                    \* what the call was made with (for the claims)
    steps,                   \* the steps the running call has executed
    kindM, kindC,            \* Python types of real/imag and of the components
    axis,
    real, imag, real_components, imag_components,
    components_coordinates, independent_arrays,
    onesRow,                 \* the ones-row augmentation was applied
    result,                  \* the returned tuple
    err                      \* the error raised, or "none"

vars == <<pc, call, steps, kindM, kindC, axis, real, imag, real_components,
          imag_components, components_coordinates, independent_arrays,
          onesRow, result, err>>

NoArray == [shape |-> <<0>>, data |-> <<>>]
NoCall == [fn |-> "none", K |-> 0, H |-> 0, lay |-> 0, grid |-> <<>>,
           seed |-> 0, off |-> 0, cR |-> <<>>, cI |-> <<>>,
           shapes |-> <<>>, kinds |-> <<>>]

Init ==
    /\ pc = "idle"
    /\ call = NoCall
    /\ steps = <<>>
    /\ kindM = "ndarray" /\ kindC = "ndarray"
    /\ axis = 0
    /\ real = NoArray /\ imag = NoArray
    /\ real_components = NoArray /\ imag_components = NoArray
    /\ components_coordinates = NoArray /\ independent_arrays = NoArray
    /\ onesRow = FALSE
    /\ result = <<>>
    /\ err = "none"

\* the arguments of a call, common to both entry points
Arguments(fn, K, H, lay, grid, seed, off, c, v, ax) ==
    /\ kindM' = v[4] /\ kindC' = v[5]
    /\ axis' = ax
    /\ real' = MeasuredArray(c[1], K, H, lay, grid, seed, off, 0)
    /\ imag' = MeasuredArray(c[2], K, H, lay, grid, seed, 0, v[1])
    /\ real_components' = ComponentArray(c[1], K, H, lay, v[2])
    /\ imag_components' = ComponentArray(c[2], K, H, lay, v[3])
    /\ call' = [fn |-> fn, K |-> K, H |-> H, lay |-> lay, grid |-> grid,
                seed |-> seed, off |-> off, cR |-> c[1], cI |-> c[2],
                shapes |-> <<real'.shape, imag'.shape, real_components'.shape,
                             imag_components'.shape>>,
                kinds |-> <<v[4], v[5]>>]
    /\ steps' = <<>>
    /\ UNCHANGED <<components_coordinates, independent_arrays, onesRow,
                   result, err>>

\* the shape and type variants are drawn with the first data pattern only
Drawn(seed, off, v) == v = PlainVariant \/ (seed = 0 /\ off = 0)

\* a caller invokes fractions_from_phasor(real, imag, real_components,
\* imag_components, axis=axis)
CallFractions ==
    /\ pc = "idle"
    /\ \E KH \in {<<2, 1>>, <<3, 1>>, <<4, 1>>, <<4, 2>>}, lay \in 0..1,
          grid \in GridShapes, seed \in 0..MaxSeed, off \in 0..1,
          v \in Variants, ax \in 0..MaxAxis :
        /\ KH[2] = 1 => lay = 0
        /\ Drawn(seed, off, v)
        /\ \E c \in ComponentSets(KH[1], KH[2]) :
            Arguments("fractions_from_phasor", KH[1], KH[2], lay, grid, seed,
                      off, c, v, ax)
    /\ pc' = "validate"

\* a caller invokes two_fractions_from_phasor directly
CallTwoFractions ==
    /\ pc = "idle"
    /\ \E grid \in GridShapes, seed \in 0..MaxSeed, off \in 0..1,
          v \in Variants :
        /\ v[1] = 0
        /\ Drawn(seed, off, v)
        /\ \E c \in ComponentSets(2, 1) :
            Arguments("two_fractions_from_phasor", 2, 1, 0, grid, seed, off,
                      c, v, 0)
    /\ pc' = "two_check"

Raise(e) ==
    /\ pc' = "raised"
    /\ err' = e
    /\ UNCHANGED result

\* lines 180-185
Validate ==
    /\ pc = "validate"
    /\ steps' = Append(steps, "validate")
    /\ LET e == ValidateError(kindM, kindC, real, imag, real_components,
                              imag_components)
       IN  IF e # "none" THEN Raise(e)
           ELSE pc' = "promote" /\ UNCHANGED <<result, err>>
    /\ UNCHANGED <<call, kindM, kindC, axis, real, imag, real_components,
                   imag_components, components_coordinates,
                   independent_arrays, onesRow>>

\* lines 186-189
Promote ==
    /\ pc = "promote"
    /\ steps' = Append(steps, "promote")
    /\ real' = AtLeast1d(real)
    /\ imag' = AtLeast1d(imag)
    /\ real_components' = AtLeast1d(real_components)
    /\ imag_components' = AtLeast1d(imag_components)
    /\ pc' = "dispatch"
    /\ UNCHANGED <<call, kindM, kindC, axis, components_coordinates,
                   independent_arrays, onesRow, result, err>>

\* lines 190-193: two components go to two_fractions_from_phasor
Dispatch ==
    /\ pc = "dispatch"
    /\ steps' = Append(steps, "dispatch")
    /\ pc' = IF IsTwoComponents(real_components) THEN "two_check" ELSE "assemble"
    /\ UNCHANGED <<call, kindM, kindC, axis, real, imag, real_components,
                   imag_components, components_coordinates,
                   independent_arrays, onesRow, result, err>>

\* lines 194-213
AssembleSystem ==
    /\ pc = "assemble"
    /\ steps' = Append(steps, "assemble")
    /\ LET asm == Assemble(real, imag, real_components, imag_components, axis)
       IN  IF asm.err # "none"
           THEN /\ Raise(asm.err)
                /\ UNCHANGED <<components_coordinates, independent_arrays,
                               onesRow>>
           ELSE /\ components_coordinates' = asm.cc
                /\ independent_arrays' = asm.ia
                /\ onesRow' = asm.ones
                /\ pc' = "solve"
                /\ UNCHANGED <<result, err>>
    /\ UNCHANGED <<call, kindM, kindC, axis, real, imag, real_components,
                   imag_components>>

\* lines 214-215
Solve ==
    /\ pc = "solve"
    /\ steps' = Append(steps, "solve")
    /\ LET out == SolveFractions(components_coordinates, independent_arrays)
       IN  IF out.err # "none" THEN Raise(out.err)
           ELSE pc' = "returned" /\ result' = out.result /\ UNCHANGED err
    /\ UNCHANGED <<call, kindM, kindC, axis, real, imag, real_components,
                   imag_components, components_coordinates,
                   independent_arrays, onesRow>>

\* lines 91-108 of two_fractions_from_phasor (numpy.asarray makes arrays of
\* the component arguments)
TwoCheck ==
    /\ pc = "two_check"
    /\ steps' = Append(steps, "two_check")
    /\ kindC' = "ndarray"
    /\ LET e == TwoCheckError(real_components, imag_components)
       IN  IF e # "none" THEN Raise(e)
           ELSE pc' = "two_project" /\ UNCHANGED <<result, err>>
    /\ UNCHANGED <<call, kindM, axis, real, imag, real_components,
                   imag_components, components_coordinates,
                   independent_arrays, onesRow>>

\* lines 109-123
TwoProject ==
    /\ pc = "two_project"
    /\ steps' = Append(steps, "two_project")
    /\ result' = TwoFractions(real, imag, real_components, imag_components)
    /\ pc' = "returned"
    /\ UNCHANGED <<call, kindM, kindC, axis, real, imag, real_components,
                   imag_components, components_coordinates,
                   independent_arrays, onesRow, err>>

\* the call is over: the caller has the tuple or the exception
Return ==
    /\ pc \in {"returned", "raised"}
    /\ pc' = "idle"
    /\ call' = NoCall
    /\ steps' = <<>>
    /\ kindM' = "ndarray" /\ kindC' = "ndarray"
    /\ axis' = 0
    /\ real' = NoArray /\ imag' = NoArray
    /\ real_components' = NoArray /\ imag_components' = NoArray
    /\ components_coordinates' = NoArray /\ independent_arrays' = NoArray
    /\ onesRow' = FALSE
    /\ result' = <<>>
    /\ err' = "none"

Next ==
    \/ CallFractions
    \/ CallTwoFractions
    \/ Validate
    \/ Promote
    \/ Dispatch
    \/ AssembleSystem
    \/ Solve
    \/ TwoCheck
    \/ TwoProject
    \/ Return

Spec == Init /\ [][Next]_vars

\* ===================================================================
\* Properties
\* ===================================================================
Over == pc \in {"returned", "raised"}
Dispatched == call.fn = "fractions_from_phasor"
ArrayInputs == call.kinds = <<"ndarray", "ndarray">>
\* the four arguments have the shapes the documentation asks for
PlainShapes ==
    /\ call.shapes[1] = call.shapes[2]
    /\ call.shapes[3] = call.shapes[4]
    /\ Len(call.shapes[3]) = call.H
\* every step the running call has executed
Did(step) == \E n \in 1..Len(steps) : steps[n] = step

\* the fraction of component k known for the sample at index s of a grid
KnownFraction(k, s, shape) ==
    Norm(FracAt(call.K, Lin(s, shape), call.seed)[k], FDen)

\* every returned array has the given shape
ShapedTuple(K, shape) ==
    /\ Len(result) = K
    /\ \A k \in 1..K : result[k].shape = shape

\* the returned tuple is the known fraction vector at every sample
RecoversKnown(K, shape) ==
    /\ ShapedTuple(K, shape)
    /\ \A k \in 1..K : \A s \in Idx(shape) :
           result[k].data[s] = KnownFraction(k, s, shape)

\* the sample shape of the arrays a call returns
ReturnedShape ==
    IF Dispatched /\ call.H = 1 /\ call.grid = <<>> THEN <<1>> ELSE call.grid

\* squared distance of the two reference points of a two-component call
ReferenceDistSq ==
    (call.cR[1][2] - call.cR[1][1]) * (call.cR[1][2] - call.cR[1][1])
    + (call.cI[1][2] - call.cI[1][1]) * (call.cI[1][2] - call.cI[1][1])

\* C1: two components, measured point an exact mixture f1*c1 + f2*c2 with
\* f1 + f2 = 1 (also beyond either end of the segment): the returned pair
\* is (f1, f2).
C1_RoundTripTwo ==
    (pc = "returned" /\ call.K = 2 /\ call.off = 0)
        => RecoversKnown(2, ReturnedShape)

\* the returned arrays sum to 1 at every sample
SumsToOne ==
    /\ Len(result) >= 2
    /\ \A s \in Idx(result[1].shape) :
           RSum([k \in 1..Len(result) |-> result[k].data[s]]) = R(1)

\* C3: the two returned fractions sum to 1 at every sample, and so do the
\* K fractions returned through the ones-row augmentation, for every
\* measured point.
C3_FractionsSumToOne ==
    (pc = "returned" /\ (call.K = 2 \/ onesRow)) => SumsToOne

\* real.shape # imag.shape, or real_components.shape # imag_components.shape
ShapesDiffer ==
    call.shapes[1] # call.shapes[2] \/ call.shapes[3] # call.shapes[4]

\* C4: with array arguments, a call of fractions_from_phasor whose real and
\* imag shapes differ, or whose component shapes differ, executes the
\* validation step only and raises the shape-mismatch error.
C4_ShapeMismatchFirst ==
    (Dispatched /\ ArrayInputs /\ ShapesDiffer /\ pc # "validate")
        => (pc = "raised" /\ err = "shape_mismatch" /\ steps = <<"validate">>)

\* a mismatched call that raised although its components coincide and the
\* two measured shapes could be broadcast
C4_Witness ==
    /\ pc = "raised" /\ err = "shape_mismatch"
    /\ Dispatched /\ ArrayInputs
    /\ call.K = 2 /\ ReferenceDistSq = 0
    /\ call.shapes[1] = <<3>> /\ call.shapes[2] = <<3, 1>>

\* C5: two_fractions_from_phasor raises the degenerate-components error
\* exactly when both component arrays have shape (2,) and the reference
\* points are at most 1e-6 apart; it raises the shape error when a
\* component array is not of shape (2,); the projection and the division
\* by the distance run only with a distance above 1e-6.
C5_DegenerateComponents ==
    (Did("two_check"))
        => /\ (err = "degenerate")
                <=> /\ real_components.shape = <<2>>
                    /\ imag_components.shape = <<2>>
                    /\ ReferenceDistSq <= AbsTolUnits * AbsTolUnits
           /\ (real_components.shape # <<2>> \/ imag_components.shape # <<2>>)
                => (pc = "raised" /\ err = "shape_mismatch")
           /\ (pc = "two_project" \/ Did("two_project"))
                => ReferenceDistSq > AbsTolUnits * AbsTolUnits

\* components exactly 1e-6 apart, reached through fractions_from_phasor
C5_Witness ==
    /\ pc = "raised" /\ err = "degenerate"
    /\ Dispatched
    /\ ReferenceDistSq = AbsTolUnits * AbsTolUnits

\* the rows of the system of a three-component (real, imag, ones) or of a
\* dual-harmonic four-component call (real and imag at both harmonics)
RowsOfCall ==
    IF call.H = 1 THEN <<call.cR[1], call.cI[1], [k \in 1..call.K |-> 1]>>
    ELSE <<call.cR[1], call.cR[2], call.cI[1], call.cI[2]>>

MatrixOfCall ==
    Arr(<<Len(RowsOfCall), call.K>>, LAMBDA i : R(RowsOfCall[i[1]][i[2]]))

\* the reference coordinates with a row of ones: K points are affinely
\* independent when this matrix has rank K
AffineRows ==
    IF call.H = 1 THEN RowsOfCall
    ELSE Append(RowsOfCall, [k \in 1..call.K |-> 1])

AffinelyIndependent ==
    \E drop \in 0..Len(AffineRows) :
        LET rows == IF drop = 0 THEN AffineRows ELSE RemoveAt(AffineRows, drop)
        IN  /\ Len(rows) = call.K
            /\ Det(Arr(<<call.K, call.K>>, LAMBDA i : R(rows[i[1]][i[2]]))) # R(0)

\* a call of fractions_from_phasor as documented, with three components at
\* one harmonic or four components at two harmonics along axis 0
SolverCall ==
    /\ Dispatched /\ ArrayInputs /\ PlainShapes
    /\ \/ call.K = 3 /\ call.H = 1
       \/ call.K = 4 /\ call.H = 2 /\ call.lay = axis

\* the measured side of the system of the sample at grid index s
MeasuredOfSample(s) ==
    IF call.H = 1 THEN <<real.data[s], imag.data[s], R(1)>>
    ELSE <<real.data[<<1>> \o s], real.data[<<2>> \o s],
           imag.data[<<1>> \o s], imag.data[<<2>> \o s]>>

\* the fractions returned at index s satisfy every equation of the system
\* built from the measured sample at index s
SolvesSample(s) ==
    \A r \in 1..Len(RowsOfCall) :
        RSum([k \in 1..call.K |->
                 RMul(R(RowsOfCall[r][k]), result[k].data[s])])
            = MeasuredOfSample(s)[r]

\* C2 as stated: axis = 0, affinely independent components, every sample an
\* exact mixture: the call returns the known fractions at every sample.
C2_RoundTripAffine ==
    (Over /\ SolverCall /\ axis = 0 /\ call.off = 0 /\ AffinelyIndependent)
        => (pc = "returned" /\ RecoversKnown(call.K, ReturnedShape))

\* C2 amended: axis = 0, three affinely independent components at one
\* harmonic, or four components at two harmonics whose 4 x 4 coefficient
\* matrix is not singular, every sample an exact mixture: the call returns
\* the known fractions at every sample.
C2_RoundTrip ==
    (Over /\ SolverCall /\ axis = 0 /\ call.off = 0
          /\ Det(MatrixOfCall) # R(0))
        => (pc = "returned" /\ RecoversKnown(call.K, ReturnedShape))

\* four components, two harmonics, several samples, a fraction below 0
C2_Witness ==
    /\ pc = "returned" /\ SolverCall /\ axis = 0 /\ call.off = 0
    /\ call.K = 4 /\ call.grid = <<2, 2>>
    /\ Det(MatrixOfCall) # R(0)
    /\ \E s \in Idx(call.grid) : result[1].data[s][1] < 0

\* C6: three collinear components, or four dual-harmonic components with
\* a singular 4 x 4 matrix: the call raises the singular-system error for
\* every measured input.
C6_SingularReported ==
    (Over /\ SolverCall /\ axis <= Len(call.grid) /\ axis <= 1
          /\ Det(MatrixOfCall) = R(0))
        => (pc = "raised" /\ err = "singular")

\* C7: axis = 0, a system that has a solution: the call returns K arrays of
\* the sample-grid shape, and the entries at index s are the fractions that
\* solve the system of the measured sample at index s.
C7_SampleCorrespondence ==
    (Over /\ SolverCall /\ axis = 0 /\ Det(MatrixOfCall) # R(0))
        => /\ pc = "returned"
           /\ ShapedTuple(call.K, ReturnedShape)
           /\ \A s \in Idx(ReturnedShape) : SolvesSample(s)

\* three components on a grid with an extent equal to K, samples differing
C7_Witness ==
    /\ pc = "returned" /\ SolverCall /\ axis = 0
    /\ call.K = 3 /\ call.grid = <<2, 3>>
    /\ result[1].data[<<1, 2>>] # result[1].data[<<2, 1>>]

\* the coefficient matrix is K x K; the ones row was added exactly when the
\* concatenated coordinates (2 H rows, K columns) are not square, once to
\* the matrix and once to the measured side.  The measured side is handed
\* over transposed and tiled K times: its concatenation axis is axis
\* number n - 1 - axis of the n axes.
SquareSystem ==
    LET n == Len(independent_arrays.shape)
        rows == 2 * call.H
        along == n - 1 - axis
    IN  /\ components_coordinates.shape = <<call.K, call.K>>
        /\ onesRow <=> (rows # call.K)
        /\ independent_arrays.shape[n] = call.K
        /\ independent_arrays.shape[along]
              = (IF onesRow THEN rows + 1 ELSE rows)
        /\ onesRow =>
              /\ \A i \in Idx(components_coordinates.shape) :
                    i[axis + 1] = rows + 1
                        => components_coordinates.data[i] = R(1)
              /\ \A i \in Idx(independent_arrays.shape) :
                    i[along] = rows + 1 => independent_arrays.data[i] = R(1)

\* C8 as stated: every call with 3 or 4 components that passes validation
\* hands a K x K matrix to the solve.
C8_SquareForEveryInput ==
    (pc = "solve" /\ Dispatched /\ ArrayInputs /\ PlainShapes
        /\ call.K \in {3, 4} /\ (call.H = 2 => call.lay = axis))
        => SquareSystem

\* C8 amended: with 3 components at one harmonic, or 4 components at two
\* harmonics given along axis, the matrix handed to the solve is K x K;
\* the ones row is added exactly in the 3-component case, once on each side.
C8_SquareSystem ==
    (pc = "solve" /\ SolverCall) => SquareSystem

C8_Witness ==
    /\ pc = "solve" /\ SolverCall /\ axis = 0
    /\ call.K = 3 /\ onesRow
    /\ components_coordinates.shape = <<3, 3>>

\* numpy.moveaxis(a, ax, 0)
MoveToFront(a, ax) ==
    Arr(<<a.shape[ax + 1]>> \o RemoveAt(a.shape, ax + 1),
        LAMBDA i : a.data[InsertAt(Tail(i), ax + 1, i[1])])

\* C9: a call with the harmonics (or the inserted stacking axis) along
\* axis ends as the call with that axis moved to position 0 and axis = 0.
C9_AxisSelectsHarmonics ==
    (Over /\ SolverCall /\ axis <= 1 /\ axis < Len(call.shapes[1]) + 1
          /\ (call.H = 2 => axis < Len(call.shapes[1])))
        => [err |-> err, result |-> result]
            = (IF call.H = 1
               THEN fractions_from_phasor("ndarray", "ndarray", real, imag,
                        real_components, imag_components, 0)
               ELSE fractions_from_phasor("ndarray", "ndarray",
                        MoveToFront(real, axis), MoveToFront(imag, axis),
                        MoveToFront(real_components, axis),
                        MoveToFront(imag_components, axis), 0))

\* C10: a call with matching shapes and 2, 3 or 4 components validates,
\* promotes, and then returns K arrays or raises shape-mismatch,
\* degenerate-components (two components only) or singular-system (three
\* or four components only); nothing else.
C10_ClosedErrorTaxonomy ==
    (Over /\ Dispatched /\ PlainShapes)
        => /\ Len(steps) >= 2 /\ steps[1] = "validate" /\ steps[2] = "promote"
           /\ \/ pc = "returned" /\ Len(result) = call.K
              \/ pc = "raised" /\ err = "shape_mismatch"
              \/ pc = "raised" /\ err = "degenerate" /\ call.K = 2
              \/ pc = "raised" /\ err = "singular" /\ call.K \in {3, 4}

====
